---- MODULE Spec2Model ----
(***************************************************************************)
(* Model of forge's `build` command argument resolution                    *)
(* (cli/src/cmd/build.rs): BuildArgs::contracts_path, artifacts_path,      *)
(* libs and project.  One run of BuildArgs::project is a sequence of       *)
(* steps; `pc` is the position inside project().                           *)
(*                                                                         *)
(* Strings are sequences of one-character strings, paths are sequences of  *)
(* path components (an absolute path starts with the component "/"), an    *)
(* Option is a sequence of length 0 (None) or 1 (Some).                    *)
(***************************************************************************)
EXTENDS Integers, Sequences, FiniteSets, TLC

VARIABLES args, fs, pc, root, contracts, artifacts, lib_paths, remappings,
          libraries, cache, result

vars == <<args, fs, pc, root, contracts, artifacts, lib_paths, remappings,
          libraries, cache, result>>

\* ------------------------------------------------------------------ bounds
\* longest explicit --lib-paths list
MaxLibPaths == 2
\* most lines in the DAPP_REMAPPINGS text
MaxLines == 2
\* longest --libraries list
MaxLinks == 3

\* ------------------------------------------------------------- Option, Seq
None == <<>>

Some(x) == <<x>>

SeqsUpTo(S, n) == UNION {[1..k -> S] : k \in 0..n}

Range(s) == {s[i] : i \in 1..Len(s)}

RECURSIVE Flatten(_)
Flatten(ss) == IF ss = <<>> THEN <<>> ELSE Head(ss) \o Flatten(Tail(ss))

\* ------------------------------------------------------------------ strings
\* byte value of the characters the model uses (Rust compares str bytewise)
Code(c) ==
    CASE c = "\n" -> 10
      [] c = ":" -> 58
      [] c = "=" -> 61
      [] c = "a" -> 97
      [] c = "b" -> 98

\* str::cmp: lexicographic on bytes; TRUE iff s < t
RECURSIVE StrLess(_, _)
StrLess(s, t) ==
    IF t = <<>> THEN FALSE
    ELSE IF s = <<>> THEN TRUE
    ELSE IF Head(s) # Head(t) THEN Code(Head(s)) < Code(Head(t))
    ELSE StrLess(Tail(s), Tail(t))

\* str::split(c): the fields between occurrences of c; "" gives one empty field
RECURSIVE split(_, _)
split(s, c) ==
    IF \A i \in 1..Len(s) : s[i] # c THEN <<s>>
    ELSE LET i == CHOOSE k \in 1..Len(s) :
                     s[k] = c /\ \A j \in 1..(k - 1) : s[j] # c
         IN  <<SubSeq(s, 1, i - 1)>> \o split(SubSeq(s, i + 1, Len(s)), c)

\* inverse direction, used to build input texts: fields joined by c
RECURSIVE JoinWith(_, _)
JoinWith(fields, c) ==
    IF fields = <<>> THEN <<>>
    ELSE IF Len(fields) = 1 THEN fields[1]
    ELSE fields[1] \o <<c>> \o JoinWith(Tail(fields), c)

\* -------------------------------------------------------------------- paths
\* Path::join: an absolute argument replaces the base
join(base, p) == IF p # <<>> /\ p[1] = "/" THEN p ELSE base \o p

\* Path::ends_with: child's components are a suffix of p's components
ends_with(p, child) ==
    /\ Len(child) <= Len(p)
    /\ SubSeq(p, Len(p) - Len(child) + 1, Len(p)) = child

Cwd == <<"/", "cwd">>

\* dunce::canonicalize: absolute form of an existing path, or an io error
canonicalize(p) ==
    LET abs == join(Cwd, p)
    IN  IF abs \in fs.existing THEN Some(abs) ELSE None

\* ethers_solc::utils::find_fave_or_alt_path
find_fave_or_alt_path(r, fave, alt) ==
    IF fave \notin fs.dirs /\ alt \in fs.dirs THEN join(r, <<alt>>)
    ELSE join(r, <<fave>>)

\* ProjectPathsConfig::find_source_dir
find_source_dir(r) == find_fave_or_alt_path(r, "src", "contracts")

\* ProjectPathsConfig::find_artifacts_dir
find_artifacts_dir(r) == find_fave_or_alt_path(r, "out", "artifacts")

\* ProjectPathsConfig::find_libs
find_libs(r) == <<find_fave_or_alt_path(r, "lib", "node_modules")>>

\* BuildArgs::contracts_path
contracts_path(r) ==
    IF args.contracts # None THEN join(r, args.contracts[1])
    ELSE IF args.hardhat THEN join(r, <<"contracts">>)
    ELSE find_source_dir(r)

\* the preset tested before the explicit value
artifacts_path_preset_first(r) ==
    IF args.hardhat THEN join(r, <<"artifacts">>)
    ELSE IF args.out_path # None THEN join(r, args.out_path[1])
    ELSE find_artifacts_dir(r)

\* BuildArgs::artifacts_path
artifacts_path(r) ==
    IF args.out_path # None THEN join(r, args.out_path[1])
    ELSE IF args.hardhat THEN join(r, <<"artifacts">>)
    ELSE find_artifacts_dir(r)

\* the preset default pushed without looking at the explicit list
libs_always_push(r) ==
    IF args.lib_paths = <<>> THEN
        IF args.hardhat THEN <<join(r, <<"node_modules">>)>>
        ELSE find_libs(r)
    ELSE
        IF args.hardhat
        THEN Append(args.lib_paths, join(r, <<"node_modules">>))
        ELSE args.lib_paths

\* BuildArgs::libs
libs(r) ==
    IF args.lib_paths = <<>> THEN
        IF args.hardhat THEN <<join(r, <<"node_modules">>)>>
        ELSE find_libs(r)
    ELSE
        IF /\ args.hardhat
           /\ ~ \E i \in 1..Len(args.lib_paths) :
                    ends_with(args.lib_paths[i], <<"node_modules">>)
        THEN Append(args.lib_paths, join(r, <<"node_modules">>))
        ELSE args.lib_paths

\* --------------------------------------------------------------- remappings
Remap(n, p) == [name |-> n, path |-> p]

\* Remapping::from_str: "<name>=<path>", both non-empty
from_str(line) ==
    LET f == split(line, "=")
    IN  IF Len(f) < 2 \/ f[1] = <<>> \/ f[2] = <<>> THEN None
        ELSE Some(Remap(f[1], f[2]))

\* Remapping::find_many: the remappings discovered under one library path
find_many(p) == IF p \in DOMAIN fs.found THEN fs.found[p] ELSE <<>>

\* the non-empty lines of a newline separated text
lines_of(text) == SelectSeq(split(text, "\n"), LAMBDA x : x # <<>>)

\* remappings_from_newline, fully consumed by Vec::extend: the parsed lines,
\* or the first line on which from_str fails (the closure panics there)
remappings_from_newline(text) ==
    LET ls == lines_of(text)
        bad == {i \in 1..Len(ls) : from_str(ls[i]) = None}
    IN  IF bad = {} THEN
            [ok |-> TRUE, items |-> [i \in 1..Len(ls) |-> from_str(ls[i])[1]],
             line |-> <<>>]
        ELSE
            [ok |-> FALSE, items |-> <<>>,
             line |-> ls[CHOOSE i \in bad : \A j \in bad : i <= j]]

\* derived Ord of Remapping: by name, then by path
RemapLess(x, y) ==
    \/ StrLess(x.name, y.name)
    \/ x.name = y.name /\ StrLess(x.path, y.path)

RECURSIVE insert_sorted(_, _)
insert_sorted(x, s) ==
    IF s = <<>> THEN <<x>>
    ELSE IF RemapLess(Head(s), x) THEN <<Head(s)>> \o insert_sorted(x, Tail(s))
    ELSE <<x>> \o s

\* Vec::sort_unstable
RECURSIVE sort_unstable(_)
sort_unstable(s) ==
    IF s = <<>> THEN <<>> ELSE insert_sorted(Head(s), sort_unstable(Tail(s)))

\* a dedup that compares only the prefix (dedup_by_key on name)
RECURSIVE dedup_by_name(_)
dedup_by_name(s) ==
    IF Len(s) <= 1 THEN s
    ELSE IF s[1].name = s[2].name THEN dedup_by_name(<<s[1]>> \o Tail(Tail(s)))
    ELSE <<s[1]>> \o dedup_by_name(Tail(s))

\* Vec::dedup: removes consecutive equal elements
RECURSIVE dedup(_)
dedup(s) ==
    IF Len(s) <= 1 THEN s
    ELSE IF s[1] = s[2] THEN dedup(Tail(s))
    ELSE <<s[1]>> \o dedup(Tail(s))

\* ---------------------------------------------------------------- libraries
EmptyMap == [k \in {} |-> <<>>]

\* entry(lib).or_insert(addr) in place of insert(lib, addr): an address
\* already present for (file, lib) is kept
map_insert_first(t, file, lib, addr) ==
    LET inner == IF file \in DOMAIN t THEN t[file] ELSE EmptyMap
        inner2 == [l \in DOMAIN inner \cup {lib} |->
                      IF l \in DOMAIN inner THEN inner[l] ELSE addr]
    IN  [f \in DOMAIN t \cup {file} |-> IF f = file THEN inner2 ELSE t[f]]

\* libraries.entry(file).or_insert_with(BTreeMap::default).insert(lib, addr)
map_insert(t, file, lib, addr) ==
    LET inner == IF file \in DOMAIN t THEN t[file] ELSE EmptyMap
        inner2 == [l \in DOMAIN inner \cup {lib} |->
                      IF l = lib THEN addr ELSE inner[l]]
    IN  [f \in DOMAIN t \cup {file} |-> IF f = file THEN inner2 ELSE t[f]]

\* a loop body that skips a link with a missing field instead of panicking
link_step_skip(st, l) ==
    LET items == split(l, ":")
    IN  IF ~st.ok \/ Len(items) < 3 THEN st
        ELSE [ok |-> TRUE,
              table |-> map_insert(st.table, items[1], items[2], items[3])]

\* a loop body that demands exactly three non-empty fields
link_step_strict(st, l) ==
    LET items == split(l, ":")
    IN  IF ~st.ok THEN st
        ELSE IF Len(items) # 3 \/ \E i \in 1..Len(items) : items[i] = <<>>
        THEN [ok |-> FALSE, table |-> st.table]
        ELSE [ok |-> TRUE,
              table |-> map_insert(st.table, items[1], items[2], items[3])]

\* one iteration of the loop over self.libraries: the three expect() calls
\* need three fields; st is [ok, table]
link_step(st, l) ==
    LET items == split(l, ":")
    IN  IF ~st.ok THEN st
        ELSE IF Len(items) < 3 THEN [ok |-> FALSE, table |-> st.table]
        ELSE [ok |-> TRUE,
              table |-> map_insert(st.table, items[1], items[2], items[3])]

\* the whole loop "unflatten the libraries"
RECURSIVE unflatten(_, _)
unflatten(st, ls) ==
    IF ls = <<>> THEN st ELSE unflatten(link_step(st, Head(ls)), Tail(ls))

\* -------------------------------------------------------------------- inputs
ProjDir == <<"/", "cwd", "proj">>

NodeModules(r) == join(r, <<"node_modules">>)

A == <<"a">>

B == <<"b">>

\* explicit --lib-paths values
LibPathChoices ==
    {<<"mylib">>, <<"node_modules">>, NodeModules(ProjDir),
     <<"/", "other", "node_modules">>}

\* directory layouts under the root that the heuristics look at
DirChoices ==
    {{}, {"contracts", "artifacts", "node_modules"},
     {"src", "contracts", "out", "artifacts", "lib", "node_modules"}}

\* lines of a remappings text: well formed, empty, and malformed ones
RemapLines ==
    {<<>>, <<"a", "=", "a">>, <<"a", "=", "b">>, <<"b", "=", "a">>,
     <<"a">>, <<"=", "a">>}

RemapTexts(n) == {JoinWith(ls, "\n") : ls \in SeqsUpTo(RemapLines, n)}

FileTexts ==
    {<<"a", "=", "a">>, <<"a", "=", "b", "\n">>,
     <<"b", "=", "a", "\n", "\n", "a", "=", "a">>, <<"b", "=">>}

ExplicitRemaps ==
    {<<>>, <<Remap(A, A)>>, <<Remap(B, A), Remap(A, B), Remap(B, A)>>}

FoundChoices == {<<>>, <<Remap(A, B), Remap(A, A)>>}

\* --libraries values: file:library:address, and malformed variants
LinkStrings ==
    {JoinWith(f, ":") : f \in
        {<<A, A, A>>, <<A, A, B>>, <<A, B, A>>, <<B, A, A>>, <<B, A, B>>,
         <<A, A>>, <<A>>, <<>>,
         <<A, <<>>, B>>, <<A, B, A, B>>}}

BaseArgs ==
    [root |-> Some(<<"proj">>), contracts |-> None, remappings |-> <<>>,
     remappings_env |-> None, lib_paths |-> <<>>, out_path |-> None,
     force |-> FALSE, hardhat |-> FALSE, libraries |-> <<>>]

BaseFs ==
    [existing |-> {Cwd, ProjDir}, git_root |-> None, dirs |-> {},
     found |-> [p \in {} |-> <<>>], remappings_txt |-> None]

\* clap's `conflicts_with = "contracts"` on --hardhat: a command line (or
\* DAPP_SRC) that gives both is rejected before project() is called
conflicts_with(a) == a.hardhat /\ a.contracts # None

\* the path resolver's inputs vary
InitPaths ==
    \E r \in {None, Some(<<"proj">>), Some(<<"/", "gone">>)},
       c \in {None, Some(<<"sol">>), Some(<<"/", "abs", "sol">>)},
       o \in {None, Some(<<"build">>)},
       hh \in BOOLEAN, f \in BOOLEAN,
       lp \in SeqsUpTo(LibPathChoices, MaxLibPaths),
       d \in DirChoices :
        /\ args = [BaseArgs EXCEPT !.root = r, !.contracts = c, !.out_path = o,
                       !.hardhat = hh, !.force = f, !.lib_paths = lp]
        /\ fs = [BaseFs EXCEPT !.dirs = d]
        /\ ~conflicts_with(args)

\* the four remapping sources vary
InitRemappings ==
    \E fd \in FoundChoices, ex \in ExplicitRemaps,
       env \in {None} \cup {Some(t) : t \in RemapTexts(MaxLines)},
       txt \in {None} \cup {Some(t) : t \in FileTexts},
       f \in BOOLEAN :
        /\ args = [BaseArgs EXCEPT !.remappings = ex, !.remappings_env = env,
                       !.force = f]
        /\ fs = [BaseFs EXCEPT !.found = (join(ProjDir, <<"lib">>) :> fd),
                     !.remappings_txt = txt]

\* the library links vary
InitLibraries ==
    \E ls \in SeqsUpTo(LinkStrings, MaxLinks), f \in BOOLEAN :
        /\ args = [BaseArgs EXCEPT !.libraries = ls, !.force = f]
        /\ fs = BaseFs

\* several inputs are malformed at once
InitMixed ==
    \E r \in {None, Some(<<"/", "gone">>)},
       env_root \in {[git |-> None, existing |-> {Cwd, ProjDir}],
                     [git |-> Some(ProjDir), existing |-> {Cwd, ProjDir}],
                     [git |-> None, existing |-> {}]},
       env \in {None, Some(<<"a", "=", "a">>), Some(<<"a">>)},
       txt \in {None, Some(<<"b", "=">>)},
       ls \in {<<>>, <<JoinWith(<<A, A, A>>, ":")>>,
               <<JoinWith(<<A, A, A>>, ":"), JoinWith(<<A, A>>, ":")>>},
       hh \in BOOLEAN, f \in BOOLEAN :
        /\ args = [BaseArgs EXCEPT !.root = r, !.remappings_env = env,
                       !.libraries = ls, !.hardhat = hh, !.force = f]
        /\ fs = [BaseFs EXCEPT !.git_root = env_root.git,
                     !.existing = env_root.existing, !.remappings_txt = txt]
        /\ ~conflicts_with(args)

NoResult == [kind |-> "None", step |-> "", msg |-> <<>>]

Init ==
    /\ InitPaths \/ InitRemappings \/ InitLibraries \/ InitMixed
    /\ pc = "root"
    /\ root = <<>>
    /\ contracts = <<>>
    /\ artifacts = <<>>
    /\ lib_paths = <<>>
    /\ remappings = <<>>
    /\ libraries = EmptyMap
    /\ cache = "intact"
    /\ result = NoResult

\* ------------------------------------------------------------------- steps
\* project() ends here: Err(..) through `?`, a panic, or Ok(project)
Finish(kind, msg) ==
    /\ result' = [kind |-> kind, step |-> pc, msg |-> msg]
    /\ pc' = "done"

Goto(next) == pc' = next /\ UNCHANGED result

\* std::env::current_dir(): an io error when the working directory is gone
current_dir == IF Cwd \in fs.existing THEN Some(Cwd) ELSE None

\* utils::find_git_root_path().unwrap_or_else(|_| current_dir().unwrap()):
\* None stands for the panic of unwrap() on current_dir()'s error
default_root == IF fs.git_root # None THEN fs.git_root ELSE current_dir

\* 1. Set the root dir
set_root ==
    /\ pc = "root"
    /\ LET r == IF args.root # None THEN args.root ELSE default_root
       IN  IF r = None
           THEN Finish("Panic", <<>>) /\ UNCHANGED root
           ELSE IF canonicalize(r[1]) = None
           THEN Finish("Err", <<>>) /\ UNCHANGED root
           ELSE root' = canonicalize(r[1])[1] /\ Goto("contracts")
    /\ UNCHANGED <<args, fs, contracts, artifacts, lib_paths, remappings,
                   libraries, cache>>

\* 2. Set the contracts dir
set_contracts ==
    /\ pc = "contracts"
    /\ contracts' = contracts_path(root)
    /\ Goto("artifacts")
    /\ UNCHANGED <<args, fs, root, artifacts, lib_paths, remappings,
                   libraries, cache>>

\* 3. Set the output dir
set_artifacts ==
    /\ pc = "artifacts"
    /\ artifacts' = artifacts_path(root)
    /\ Goto("libs")
    /\ UNCHANGED <<args, fs, root, contracts, lib_paths, remappings,
                   libraries, cache>>

\* 4. Set where the libraries are going to be read from
set_lib_paths ==
    /\ pc = "libs"
    /\ lib_paths' = libs(root)
    /\ Goto("find_many")
    /\ UNCHANGED <<args, fs, root, contracts, artifacts, remappings,
                   libraries, cache>>

\* get all the remappings corresponding to the lib paths
find_remappings ==
    /\ pc = "find_many"
    /\ remappings' = Flatten([i \in 1..Len(lib_paths) |-> find_many(lib_paths[i])])
    /\ Goto("explicit")
    /\ UNCHANGED <<args, fs, root, contracts, artifacts, lib_paths,
                   libraries, cache>>

\* extend them with the ones manually provided in the opts
extend_explicit ==
    /\ pc = "explicit"
    /\ remappings' = remappings \o args.remappings
    /\ Goto("env")
    /\ UNCHANGED <<args, fs, root, contracts, artifacts, lib_paths,
                   libraries, cache>>

\* remappings.extend(remappings_from_newline(text)), then go to `next`
extend_from_text(text, next) ==
    LET r == remappings_from_newline(text)
    IN  IF r.ok
        THEN remappings' = remappings \o r.items /\ Goto(next)
        ELSE Finish("Panic", r.line) /\ UNCHANGED remappings

\* extend them with the ones via the env var
extend_env ==
    /\ pc = "env"
    /\ IF args.remappings_env # None
       THEN extend_from_text(args.remappings_env[1], "file")
       ELSE Goto("file") /\ UNCHANGED remappings
    /\ UNCHANGED <<args, fs, root, contracts, artifacts, lib_paths,
                   libraries, cache>>

\* extend them with the ones via remappings.txt (a missing file is skipped)
extend_file ==
    /\ pc = "file"
    /\ IF fs.remappings_txt # None
       THEN extend_from_text(fs.remappings_txt[1], "dedup")
       ELSE Goto("dedup") /\ UNCHANGED remappings
    /\ UNCHANGED <<args, fs, root, contracts, artifacts, lib_paths,
                   libraries, cache>>

\* remove any potential duplicates
sort_dedup ==
    /\ pc = "dedup"
    /\ remappings' = dedup(sort_unstable(remappings))
    /\ Goto("paths")
    /\ UNCHANGED <<args, fs, root, contracts, artifacts, lib_paths,
                   libraries, cache>>

\* build the path: ProjectPathsConfig::builder()...build()? may fail
build_paths ==
    /\ pc = "paths"
    /\ \E ok \in BOOLEAN :
           IF ok THEN Goto("libraries") ELSE Finish("Err", <<>>)
    /\ UNCHANGED <<args, fs, root, contracts, artifacts, lib_paths,
                   remappings, libraries, cache>>

\* unflatten the libraries
unflatten_libraries ==
    /\ pc = "libraries"
    /\ LET st == unflatten([ok |-> TRUE, table |-> EmptyMap], args.libraries)
       IN  IF st.ok
           THEN libraries' = st.table /\ Goto("project")
           ELSE Finish("Panic", <<>>) /\ UNCHANGED libraries
    /\ UNCHANGED <<args, fs, root, contracts, artifacts, lib_paths,
                   remappings, cache>>

\* the cache removed as soon as --force is seen, before the project is built
build_project_after_cleanup ==
    /\ pc = "project"
    /\ cache' = IF args.force THEN "deleted" ELSE cache
    /\ \E ok \in BOOLEAN :
           IF ok THEN Goto("cleanup") ELSE Finish("Err", <<>>)
    /\ UNCHANGED <<args, fs, root, contracts, artifacts, lib_paths,
                   remappings, libraries>>

\* SolcConfig::builder()...build()? and Project::builder()...build()?
build_project ==
    /\ pc = "project"
    /\ \E ok \in BOOLEAN :
           IF ok THEN Goto("cleanup") ELSE Finish("Err", <<>>)
    /\ UNCHANGED <<args, fs, root, contracts, artifacts, lib_paths,
                   remappings, libraries, cache>>

\* `let _ = project.cleanup();`: a failed deletion is dropped
cleanup_unchecked ==
    /\ pc = "cleanup"
    /\ IF args.force
       THEN \E ok \in BOOLEAN :
                cache' = IF ok THEN "deleted" ELSE "delete_failed"
       ELSE UNCHANGED cache
    /\ Goto("return")
    /\ UNCHANGED <<args, fs, root, contracts, artifacts, lib_paths,
                   remappings, libraries>>

\* if self.force { project.cleanup()?; }
cleanup ==
    /\ pc = "cleanup"
    /\ IF args.force
       THEN \E ok \in BOOLEAN :
                IF ok THEN cache' = "deleted" /\ Goto("return")
                ELSE cache' = "delete_failed" /\ Finish("Err", <<>>)
       ELSE Goto("return") /\ UNCHANGED cache
    /\ UNCHANGED <<args, fs, root, contracts, artifacts, lib_paths,
                   remappings, libraries>>

\* Ok(project)
return_ok ==
    /\ pc = "return"
    /\ Finish("Ok", <<>>)
    /\ UNCHANGED <<args, fs, root, contracts, artifacts, lib_paths,
                   remappings, libraries, cache>>

Next ==
    \/ set_root
    \/ set_contracts
    \/ set_artifacts
    \/ set_lib_paths
    \/ find_remappings
    \/ extend_explicit
    \/ extend_env
    \/ extend_file
    \/ sort_dedup
    \/ build_paths
    \/ unflatten_libraries
    \/ build_project
    \/ cleanup
    \/ return_ok

Spec == Init /\ [][Next]_vars

\* ------------------------------------------------------------- properties
StepOrder ==
    <<"root", "contracts", "artifacts", "libs", "find_many", "explicit", "env",
      "file", "dedup", "paths", "libraries", "project", "cleanup", "return">>

Pos(p) == CHOOSE i \in 1..Len(StepOrder) : StepOrder[i] = p

\* the step named `stage` has been executed and did not end the run
Passed(stage) ==
    IF pc = "done"
    THEN result.kind = "Ok" \/ Pos(result.step) > Pos(stage)
    ELSE Pos(pc) > Pos(stage)

Succeeded == pc = "done" /\ result.kind = "Ok"

Failed == pc = "done" /\ result.kind \in {"Err", "Panic"}

Colons(l) == Cardinality({i \in 1..Len(l) : l[i] = ":"})

\* fewer than three colon-delimited fields
MissingField(l) == Colons(l) < 2

\* not exactly three non-empty colon-delimited fields
NotThreeNonEmpty(l) ==
    \/ Colons(l) # 2
    \/ \E i \in 1..Len(split(l, ":")) : split(l, ":")[i] = <<>>

SomeLink(P(_)) == \E i \in 1..Len(args.libraries) : P(args.libraries[i])

\* the remappings the four sources contribute, as a set of (prefix, target)
EnvItems ==
    IF args.remappings_env = None THEN {}
    ELSE Range(remappings_from_newline(args.remappings_env[1]).items)

FileItems ==
    IF fs.remappings_txt = None THEN {}
    ELSE Range(remappings_from_newline(fs.remappings_txt[1]).items)

FoundItems ==
    UNION {Range(find_many(lib_paths[i])) : i \in 1..Len(lib_paths)}

CombinedInput == FoundItems \cup Range(args.remappings) \cup EnvItems \cup FileItems

\* a non-empty line of the text that is no "<prefix>=<target>"
HasBadLine(text) ==
    \E i \in 1..Len(lines_of(text)) :
        LET l == lines_of(text)[i]
            eq == {k \in 1..Len(l) : l[k] = "="}
        IN  eq = {} \/ 1 \in eq \/ Len(l) \in eq

BadRemappingInput ==
    \/ args.remappings_env # None /\ HasBadLine(args.remappings_env[1])
    \/ fs.remappings_txt # None /\ HasBadLine(fs.remappings_txt[1])

\* C1: after a successful project(), the remapping sequence is strictly
\* increasing in the order of Remapping (sorted, every pair once) and its
\* elements are exactly the (prefix, target) pairs of the four sources, so
\* two targets of one prefix are both kept and nothing is invented.
C1_SortedDedup ==
    Succeeded =>
        /\ \A i \in 1..Len(remappings) : \A j \in 1..Len(remappings) :
               i < j => RemapLess(remappings[i], remappings[j])
        /\ Range(remappings) = CombinedInput

C1_Witness ==
    /\ Succeeded
    /\ \E i \in 1..Len(remappings) : \E j \in 1..Len(remappings) :
           /\ remappings[i].name = remappings[j].name
           /\ remappings[i].path # remappings[j].path
    /\ Remap(A, A) \in FoundItems \cap Range(args.remappings) \cap EnvItems
                          \cap FileItems

\* C2 as claimed: with the Hardhat preset and a non-empty explicit list that
\* does not contain root/node_modules, libs() is the explicit list followed
\* by root/node_modules.
C2_AsClaimed ==
    (/\ Passed("libs")
     /\ args.hardhat
     /\ args.lib_paths # <<>>
     /\ NodeModules(root) \notin Range(args.lib_paths))
        => lib_paths = Append(args.lib_paths, NodeModules(root))

\* C3: a link string with fewer than three colon-delimited fields makes the
\* run fail: it never succeeds, no link table exists in any state, and the
\* steps after the link loop are never reached, whatever links surround it.
C3_MissingFieldFails ==
    SomeLink(MissingField) =>
        /\ result.kind # "Ok"
        /\ libraries = EmptyMap
        /\ pc \notin {"project", "cleanup", "return"}

C3_Witness ==
    /\ Failed
    /\ result.kind = "Panic"
    /\ result.step = "libraries"
    /\ Len(args.libraries) = 3
    /\ ~MissingField(args.libraries[1])
    /\ MissingField(args.libraries[2])
    /\ ~MissingField(args.libraries[3])

\* C4 as claimed: a link string that is not exactly three non-empty
\* colon-delimited fields makes the run fail.
C4_AsClaimed == (pc = "done" /\ SomeLink(NotThreeNonEmpty)) => result.kind # "Ok"

\* C4 amended: the link loop fails only on a string with fewer than three
\* fields; once the loop is passed every link string, also one with an empty
\* field or with more than three fields, has its first two fields as a
\* (file, library) key of the table.
C4_OnlyMissingFieldRejected ==
    /\ (Failed /\ result.step = "libraries") => SomeLink(MissingField)
    /\ Passed("libraries") =>
           \A i \in 1..Len(args.libraries) :
               LET f == split(args.libraries[i], ":")
               IN  /\ Len(f) >= 3
                   /\ f[1] \in DOMAIN libraries
                   /\ f[2] \in DOMAIN libraries[f[1]]

C4_Witness ==
    /\ Succeeded
    /\ \E i \in 1..Len(args.libraries) :
           /\ Colons(args.libraries[i]) = 2
           /\ NotThreeNonEmpty(args.libraries[i])
    /\ \E i \in 1..Len(args.libraries) : Colons(args.libraries[i]) > 2
    /\ A \in DOMAIN libraries
    /\ <<>> \in DOMAIN libraries[A]

\* C5 as claimed: a non-empty line of the environment override or of
\* remappings.txt that is no remapping ends the run with an error value
\* (Err) that carries the line, never with a panic.
C5_AsClaimed ==
    (pc = "done" /\ result.step # "root" /\ BadRemappingInput) =>
        result.kind = "Err" /\ HasBadLine(result.msg)

\* C6: with --force the cache is deleted before Ok is returned, a failed
\* deletion ends the run with Err, and without --force the cache is never
\* touched.
C6_ForceCleanup ==
    /\ (args.force /\ (pc = "return" \/ Succeeded)) => cache = "deleted"
    /\ cache = "delete_failed" =>
           pc = "done" /\ result.kind = "Err" /\ result.step = "cleanup"
    /\ ~args.force => cache = "intact"

C6_Witness == Succeeded /\ args.force /\ cache = "deleted"

\* C7: when every link string has its three fields, the table's keys are
\* exactly the (file, library) pairs of the strings and each maps to the
\* address of the last string with that pair.
C7_LastWriteWins ==
    (Passed("libraries") /\ ~SomeLink(MissingField)) =>
        LET n == Len(args.libraries)
            F(i) == split(args.libraries[i], ":")
        IN  /\ \A i \in 1..n :
                   /\ F(i)[1] \in DOMAIN libraries
                   /\ F(i)[2] \in DOMAIN libraries[F(i)[1]]
                   /\ (\A j \in (i + 1)..n :
                           F(j)[1] # F(i)[1] \/ F(j)[2] # F(i)[2])
                          => libraries[F(i)[1]][F(i)[2]] = F(i)[3]
            /\ \A f \in DOMAIN libraries : \A l \in DOMAIN libraries[f] :
                   \E i \in 1..n : F(i)[1] = f /\ F(i)[2] = l

C7_Witness ==
    /\ Succeeded
    /\ Len(args.libraries) = 3
    /\ \E i, j, k \in 1..3 :
           LET F(x) == split(args.libraries[x], ":")
           IN  /\ i < j
               /\ k # i /\ k # j
               /\ F(i)[1] = F(j)[1] /\ F(i)[2] = F(j)[2] /\ F(i)[3] # F(j)[3]
               /\ F(k)[1] = F(i)[1] /\ F(k)[2] # F(i)[2]
               /\ libraries[F(i)[1]][F(i)[2]] = F(j)[3]
               /\ libraries[F(k)[1]][F(k)[2]] = F(k)[3]

Count(s, x) == Cardinality({i \in 1..Len(s) : s[i] = x})

\* C8: with the Hardhat preset libs() adds no second root/node_modules:
\* without explicit paths it is exactly [root/node_modules], whatever
\* directories exist, and an explicit list that holds root/node_modules is
\* returned unchanged.
C8_NoDuplicateDefault ==
    (Passed("libs") /\ args.hardhat) =>
        /\ args.lib_paths = <<>> => lib_paths = <<NodeModules(root)>>
        /\ NodeModules(root) \in Range(args.lib_paths) => lib_paths = args.lib_paths
        /\ Count(lib_paths, NodeModules(root))
               <= IF NodeModules(root) \in Range(args.lib_paths)
                  THEN Count(args.lib_paths, NodeModules(root)) ELSE 1

C8_Witness ==
    /\ Passed("libs")
    /\ args.hardhat
    /\ Len(args.lib_paths) = 2
    /\ args.lib_paths[1] = NodeModules(root)
    /\ args.lib_paths[2] # NodeModules(root)
    /\ lib_paths = args.lib_paths

\* C9: sources and artifacts each follow explicit value, then Hardhat
\* preset, then the directory heuristic, and neither depends on the other's
\* explicit value.  (The command line never gives --hardhat together with
\* --contracts; an explicit --out with --hardhat is the case where the
\* explicit value meets the preset.)
C9_LayeredPrecedence ==
    Passed("artifacts") =>
        /\ args.contracts # None => contracts = join(root, args.contracts[1])
        /\ (args.contracts = None /\ args.hardhat)
               => contracts = join(root, <<"contracts">>)
        /\ (args.contracts = None /\ ~args.hardhat)
               => contracts = find_fave_or_alt_path(root, "src", "contracts")
        /\ args.out_path # None => artifacts = join(root, args.out_path[1])
        /\ (args.out_path = None /\ args.hardhat)
               => artifacts = join(root, <<"artifacts">>)
        /\ (args.out_path = None /\ ~args.hardhat)
               => artifacts = find_fave_or_alt_path(root, "out", "artifacts")

C9_Witness ==
    /\ Passed("artifacts")
    /\ args.hardhat
    /\ args.contracts = None
    /\ args.out_path = Some(<<"build">>)
    /\ contracts = join(root, <<"contracts">>)
    /\ artifacts = join(root, <<"build">>)

\* C10: the cache is touched only in the cleanup step, after every earlier
\* step succeeded: a run that failed before it (invalid root, malformed
\* remapping line, malformed link, build failure) leaves the cache intact,
\* also with --force.
C10_FailureLeavesCache ==
    /\ (Failed /\ result.step # "cleanup") => cache = "intact"
    /\ cache # "intact" =>
           /\ Passed("project")
           /\ root # <<>>
           /\ ~BadRemappingInput
           /\ ~SomeLink(MissingField)

C10_Witness ==
    /\ Failed
    /\ args.force
    /\ result.step = "libraries"
    /\ SomeLink(MissingField)
    /\ cache = "intact"

====
